---- MODULE Spec2Model ----
(***************************************************************************)
(* A model of the Mach-O loader: the Room pipeline (room.rs, vm.rs,        *)
(* utilities.rs) and the Task driver (lib.rs, mach.rs, linker.rs,          *)
(* jumper.rs, bin/main.rs).                                                *)
(*                                                                         *)
(* Addresses are byte offsets from the base `vm` the kernel granted.  The  *)
(* address space is NumPages pages of PageSize bytes; the pages the        *)
(* allocation did not grant are memory of the host process that the Room   *)
(* does not own.  A 64-bit value is its eight little-endian bytes.         *)
(***************************************************************************)
EXTENDS Integers, Sequences, FiniteSets, TLC

\* ---------------------------------------------------------------- bounds
PageSize == 8
NumPages == 5
ForeignByte == 170

MemSize == NumPages * PageSize
Pages == 0 .. (NumPages - 1)
Addrs == 0 .. (MemSize - 1)

\* ------------------------------------------------------- program constants
PtrSize == 8
MaxImageLen == 100000000
VM_PROT_READ == 1
VM_PROT_WRITE == 2
VM_PROT_EXECUTE == 4
S_NON_LAZY_SYMBOL_POINTERS == 6
S_LAZY_SYMBOL_POINTERS == 7
SECTION_TYPE == 255
N_UNDF == 0
RTLD_DEFAULT_FLAGS == 0
RTLD_LAZY == 1
RTLD_NOLOAD == 16
CPU_TYPE_ARM64 == 16777228

\* ---------------------------------------------------------------- helpers
Min(S) == CHOOSE x \in S : \A y \in S : x <= y
Max(S) == CHOOSE x \in S : \A y \in S : y <= x

\* bit b (a power of two) of the protection mask p
HasBit(p, b) == (p \div b) % 2 = 1
BitVal(c, b) == IF c THEN b ELSE 0
\* a & b on protection masks
ProtAnd(a, b) ==
    BitVal(HasBit(a, 1) /\ HasBit(b, 1), 1)
  + BitVal(HasBit(a, 2) /\ HasBit(b, 2), 2)
  + BitVal(HasBit(a, 4) /\ HasBit(b, 4), 4)

NUL == "\\0"
\* a name in its 16-byte zero-padded field
Pad16(s) == s \o [i \in 1 .. (16 - Len(s)) |-> NUL]
StartsWith(s, p) == Len(p) <= Len(s) /\ \A i \in 1 .. Len(p) : s[i] = p[i]

NullPtr == <<0, 0, 0, 0, 0, 0, 0, 0>>
\* the little-endian bytes of a small address
Ptr(n) == <<n % 256, n \div 256, 0, 0, 0, 0, 0, 0>>

\* u64 arithmetic on little-endian bytes
U64(n) == << n % 256, (n \div 256) % 256, (n \div 65536) % 256, n \div 16777216,
             0, 0, 0, 0 >>
RECURSIVE CarryInto(_, _, _)
CarryInto(a, b, k) ==
    IF k = 1 THEN 0 ELSE (a[k - 1] + b[k - 1] + CarryInto(a, b, k - 1)) \div 256
\* a + b modulo 2^64, and whether a + b is 2^64 or more
wrapping_add(a, b) == [k \in DOMAIN a |-> (a[k] + b[k] + CarryInto(a, b, k)) % 256]
add_overflows(a, b) == CarryInto(a, b, Len(a) + 1) = 1
LessBytes(a, b) ==
    \E k \in DOMAIN a : a[k] < b[k] /\ \A j \in DOMAIN a : j > k => a[j] = b[j]
MinBytes(S) == CHOOSE x \in S : \A y \in S : ~LessBytes(y, x)
MaxBytes(S) == CHOOSE x \in S : \A y \in S : ~LessBytes(x, y)
RECURSIVE BorrowInto(_, _, _)
BorrowInto(a, b, k) ==
    IF k = 1 THEN 0
    ELSE IF a[k - 1] - b[k - 1] - BorrowInto(a, b, k - 1) < 0 THEN 1 ELSE 0
\* a - b for a >= b
SubBytes(a, b) == [k \in DOMAIN a |-> (a[k] - b[k] - BorrowInto(a, b, k) + 256) % 256]
\* usize::saturating_sub
saturating_sub(a, b) == IF LessBytes(a, b) THEN [k \in DOMAIN a |-> 0] ELSE SubBytes(a, b)
\* the value as a number; a value of 2^31 or more is beyond every size the
\* address space can hold and reads as the largest number
AsNat(v) ==
    IF (\A k \in 5 .. Len(v) : v[k] = 0) /\ v[4] < 128
    THEN v[1] + 256 * v[2] + 65536 * v[3] + 16777216 * v[4]
    ELSE 2147483647

\* ---------------------------------------------------------------- names
S_PAGEZERO == <<"_", "_", "P", "A", "G", "E", "Z", "E", "R", "O">>
S_TEXT == <<"_", "_", "T", "E", "X", "T">>
S_DATA == <<"_", "_", "D", "A", "T", "A">>
S_DATA_CONST == <<"_", "_", "D", "A", "T", "A", "_", "C", "O", "N", "S", "T">>
S_got == <<"_", "_", "g", "o", "t">>
S_auth_got == <<"_", "_", "a", "u", "t", "h", "_", "g", "o", "t">>
S_const == <<"_", "_", "c", "o", "n", "s", "t">>

\* utilities.rs: segname.starts_with(name)
segment_name_eq(segname, name) == StartsWith(segname, name)

\* ------------------------------------------------------------ host process
\* The host dynamic linker: the libraries it can open, the handle dlopen
\* gives for each, whether the library is already loaded in the host (what
\* RTLD_NOLOAD asks), and the address of each symbol it exports.
HostLibs == <<
  [path |-> "/usr/lib/libSystem.B.dylib", handle |-> 1, loaded |-> TRUE,
   exports |-> {[name |-> <<"p", "u", "t", "s">>, addr |-> Ptr(64)],
                [name |-> <<"f", "p">>, addr |-> Ptr(72)]}],
  [path |-> "/usr/lib/libB.dylib", handle |-> 2, loaded |-> FALSE,
   exports |-> {[name |-> <<"g">>, addr |-> Ptr(80)]}] >>

HostLibOf(path) == {i \in DOMAIN HostLibs : HostLibs[i].path = path}

\* libc::dlopen(path, flags): the handle, 0 for null
dlopen(loaded, path, flags) ==
    IF HostLibOf(path) = {} THEN 0
    ELSE LET lib == HostLibs[CHOOSE i \in HostLibOf(path) : TRUE]
         IN  IF flags = RTLD_NOLOAD /\ path \notin loaded THEN 0 ELSE lib.handle

\* libc::dlsym(handle, name): the address, NullPtr when the library does
\* not export the name
dlsym(handle, name) ==
    LET libs == {i \in DOMAIN HostLibs : HostLibs[i].handle = handle}
        hits == IF libs = {} THEN {}
                ELSE {e \in HostLibs[CHOOSE i \in libs : TRUE].exports : e.name = name}
    IN  IF hits = {} THEN NullPtr ELSE (CHOOSE e \in hits : TRUE).addr

\* ------------------------------------------------------------------ images
P(n) == n * PageSize

Seg(name, fileoff, filesize, vmaddr, vmsize, initprot, maxprot, sections) ==
    [segname |-> Pad16(name), fileoff |-> fileoff, filesize |-> filesize,
     vmaddr |-> vmaddr, vmsize |-> vmsize, initprot |-> initprot,
     maxprot |-> maxprot, sections |-> sections, vmaddr_top |-> 0, vmsize_top |-> 0]

\* vmaddr and vmsize are 64-bit fields: the segment with bits 56..63 of its
\* vmaddr and of its vmsize set to the given bytes
High(seg, vmaddr_top, vmsize_top) ==
    [seg EXCEPT !.vmaddr_top = vmaddr_top, !.vmsize_top = vmsize_top]
\* seg.vmaddr and seg.vmsize as the u64 they are
vmaddr64(seg) == [U64(seg.vmaddr) EXCEPT ![8] = seg.vmaddr_top]
vmsize64(seg) == [U64(seg.vmsize) EXCEPT ![8] = seg.vmsize_top]
\* vm + seg.vmaddr: an address with bits 56..63 set is above every page of
\* the address space
SegAddr(seg) == IF seg.vmaddr_top = 0 THEN seg.vmaddr ELSE NumPages * PageSize

Sect(name, addr, size, offset, flags) ==
    [sectname |-> Pad16(name), addr |-> addr, size |-> size,
     offset |-> offset, flags |-> flags]

Sym(name, n_type, ordinal, n_value) ==
    [name |-> name, n_type |-> n_type, n_desc |-> ordinal * 256, n_value |-> n_value]

Lc(cmd, path) == [cmd |-> cmd, path |-> path]

\* file contents: n bytes of code/data, none of them zero
FileBytes(n) == [i \in 1 .. n |-> 16 + (i % 100)]
\* a pre-link GOT cell: the symbol's n_value with an arm64 tag in the top nibble
Tagged(p) == [p EXCEPT ![8] = p[8] + 128]
\* the value p with t in bits 63..60
TaggedWith(p, t) == [p EXCEPT ![8] = (p[8] % 16) + 16 * t]
\* a symbol value with bits 58 and 56 set
HighValue == [Ptr(208) EXCEPT ![8] = 5]

MachO(segments, load_commands, symbols, entry, bytes) ==
    [segments |-> segments, load_commands |-> load_commands,
     symbols |-> symbols, entry |-> entry, is_64 |-> TRUE, bytes |-> bytes]

\* scenario 1: statically linked, __PAGEZERO below __TEXT, __DATA with bss
ImgStatic ==
    MachO(<< Seg(S_PAGEZERO, 0, 0, 0, P(1), 0, 0, << >>),
             Seg(S_TEXT, 0, PageSize, P(1), P(1), 5, 5, << >>),
             Seg(S_DATA, PageSize, 4, P(2), P(1), 3, 3, << >>) >>,
          << Lc("LC_MAIN", "") >>, << >>, P(1), FileBytes(PageSize + 4))

\* scenario 2: one __got cell bound to libSystem
ImgDyn1 ==
    MachO(<< Seg(S_TEXT, 0, PageSize, 0, P(1), 5, 5, << >>),
             Seg(S_DATA_CONST, PageSize, PtrSize, P(1), P(1), 3, 3,
                 << Sect(S_got, P(1), PtrSize, PageSize, S_NON_LAZY_SYMBOL_POINTERS) >>) >>,
          << Lc("LC_LOAD_DYLIB", "/usr/lib/libSystem.B.dylib"), Lc("LC_MAIN", "") >>,
          << Sym(<<"_", "m", "a", "i", "n">>, 15, 0, Ptr(0)),
             Sym(<<"_", "f", "p">>, 1, 1, Ptr(200)) >>,
          0, FileBytes(PageSize) \o Tagged(Ptr(200)))

\* two __got cells, two libraries
ImgDyn2 ==
    MachO(<< Seg(S_TEXT, 0, PageSize, 0, P(1), 5, 5, << >>),
             Seg(S_DATA_CONST, PageSize, 2 * PtrSize, P(1), P(2), 3, 3,
                 << Sect(S_const, P(1), 0, PageSize, 0),
                    Sect(S_got, P(1), 2 * PtrSize, PageSize, S_LAZY_SYMBOL_POINTERS) >>) >>,
          << Lc("LC_LOAD_DYLIB", "/usr/lib/libSystem.B.dylib"), Lc("LC_MAIN", ""),
             Lc("LC_LAZY_LOAD_DYLIB", "/usr/lib/libB.dylib") >>,
          << Sym(<<"_", "p", "u", "t", "s">>, 1, 1, Ptr(200)),
             Sym(<<"_", "g">>, 1, 2, Ptr(208)) >>,
          0, FileBytes(PageSize) \o Ptr(200) \o Tagged(Ptr(208)))

\* no __PAGEZERO and a lowest vmaddr above 0
ImgHigh ==
    MachO(<< Seg(S_TEXT, 0, PageSize, P(1), P(1), 5, 5, << >>),
             Seg(S_DATA, PageSize, 4, P(2), P(1), 3, 3, << >>) >>,
          << Lc("LC_MAIN", "") >>, << >>, P(1), FileBytes(PageSize + 4))

\* two segments that are not page aligned and share page 0
ImgShare ==
    MachO(<< Seg(S_DATA, 0, 4, 0, 4, 3, 3, << >>),
             Seg(S_const, 4, 4, 4, 4, 1, 1, << >>),
             Seg(S_TEXT, 8, PageSize, P(1), P(1), 5, 5, << >>) >>,
          << Lc("LC_MAIN", "") >>, << >>, P(1), FileBytes(8 + PageSize))

\* the entry point in a segment that is readable, writable and executable
ImgRwx ==
    MachO(<< Seg(S_TEXT, 0, PageSize, 0, P(1), 7, 7, << >>) >>,
          << Lc("LC_MAIN", "") >>, << >>, 0, FileBytes(PageSize))

\* the entry point in a segment that is not executable
ImgNoExec ==
    MachO(<< Seg(S_TEXT, 0, PageSize, 0, P(1), 5, 5, << >>),
             Seg(S_DATA, PageSize, PageSize, P(1), P(1), 3, 3, << >>) >>,
          << Lc("LC_MAIN", "") >>, << >>, P(1), FileBytes(2 * PageSize))

\* scenario 4: a required library that the host cannot open
ImgMissingDylib ==
    MachO(<< Seg(S_TEXT, 0, PageSize, 0, P(1), 5, 5, << >>) >>,
          << Lc("LC_LOAD_DYLIB", "/usr/lib/libMissing.dylib"), Lc("LC_MAIN", "") >>,
          << >>, 0, FileBytes(PageSize))

\* scenario 5: a __got cell whose symbol no library exports
ImgUnresolved ==
    MachO(<< Seg(S_TEXT, 0, PageSize, 0, P(1), 5, 5, << >>),
             Seg(S_DATA_CONST, PageSize, PtrSize, P(1), P(1), 3, 3,
                 << Sect(S_got, P(1), PtrSize, PageSize, S_NON_LAZY_SYMBOL_POINTERS) >>) >>,
          << Lc("LC_LOAD_DYLIB", "/usr/lib/libSystem.B.dylib"), Lc("LC_MAIN", "") >>,
          << Sym(<<"_", "n", "o">>, 1, 1, Ptr(200)) >>,
          0, FileBytes(PageSize) \o Ptr(200))

\* vmaddr + vmsize of __DATA is 2^64 + PageSize
ImgWrap ==
    MachO(<< Seg(S_TEXT, 0, PageSize, 0, P(1), 5, 5, << >>),
             High(Seg(S_DATA, PageSize, 0, 0, P(1), 3, 3, << >>), 255, 1) >>,
          << Lc("LC_MAIN", "") >>, << >>, 0, FileBytes(PageSize))

\* a __got section that is not of a symbol pointer type (S_REGULAR)
ImgBadGot ==
    MachO(<< Seg(S_TEXT, 0, PageSize, 0, P(1), 5, 5, << >>),
             Seg(S_DATA_CONST, PageSize, PtrSize, P(1), P(1), 3, 3,
                 << Sect(S_got, P(1), PtrSize, PageSize, 0) >>) >>,
          << Lc("LC_LOAD_DYLIB", "/usr/lib/libSystem.B.dylib"), Lc("LC_MAIN", "") >>,
          << Sym(<<"_", "f", "p">>, 1, 1, Ptr(200)) >>,
          0, FileBytes(PageSize) \o Ptr(200))

\* a symbol whose library ordinal is above the number of libraries
ImgBadOrdinal ==
    MachO(<< Seg(S_TEXT, 0, PageSize, 0, P(1), 5, 5, << >>),
             Seg(S_DATA_CONST, PageSize, PtrSize, P(1), P(1), 3, 3,
                 << Sect(S_got, P(1), PtrSize, PageSize, S_NON_LAZY_SYMBOL_POINTERS) >>) >>,
          << Lc("LC_LOAD_DYLIB", "/usr/lib/libSystem.B.dylib"), Lc("LC_MAIN", "") >>,
          << Sym(<<"_", "f", "p">>, 1, 2, Ptr(200)) >>,
          0, FileBytes(PageSize) \o Ptr(200))

\* a symbol of library ordinal 0 (SELF_LIBRARY_ORDINAL) in an image that
\* names the same library in 256 load commands
ImgManyDylibs ==
    MachO(<< Seg(S_TEXT, 0, PageSize, 0, P(1), 5, 5, << >>),
             Seg(S_DATA_CONST, PageSize, PtrSize, P(1), P(1), 3, 3,
                 << Sect(S_got, P(1), PtrSize, PageSize, S_NON_LAZY_SYMBOL_POINTERS) >>) >>,
          [k \in 1 .. 256 |-> Lc("LC_LOAD_DYLIB", "/usr/lib/libSystem.B.dylib")]
              \o << Lc("LC_MAIN", "") >>,
          << Sym(<<"_", "f", "p">>, 1, 0, Ptr(200)) >>,
          0, FileBytes(PageSize) \o Ptr(200))

\* every dylib command variant, the same library named twice, and commands
\* of other kinds in between
ImgAllDylibs ==
    MachO(<< Seg(S_TEXT, 0, PageSize, 0, P(1), 5, 5, << >>) >>,
          << Lc("LC_SYMTAB", ""),
             Lc("LC_LOAD_DYLIB", "/usr/lib/libSystem.B.dylib"),
             Lc("LC_MAIN", ""),
             Lc("LC_LOAD_UPWARD_DYLIB", "/usr/lib/libSystem.B.dylib"),
             Lc("LC_REEXPORT_DYLIB", "/usr/lib/libB.dylib"),
             Lc("LC_LOAD_WEAK_DYLIB", "/usr/lib/libB.dylib"),
             Lc("LC_LAZY_LOAD_DYLIB", "/usr/lib/libB.dylib") >>,
          << >>, 0, FileBytes(PageSize))

\* no segment at all
ImgEmpty ==
    MachO(<< >>, << Lc("LC_MAIN", "") >>, << >>, 0, FileBytes(4))

\* three __got cells: tags 1 and 15 in the top nibble, and a cell without a
\* tag whose bits 59..56 are not zero
ImgTags ==
    MachO(<< Seg(S_TEXT, 0, PageSize, 0, P(1), 5, 5, << >>),
             Seg(S_DATA_CONST, PageSize, 3 * PtrSize, P(1), P(1), 3, 3,
                 << Sect(S_got, P(1), 3 * PtrSize, PageSize, S_NON_LAZY_SYMBOL_POINTERS) >>) >>,
          << Lc("LC_LOAD_DYLIB", "/usr/lib/libSystem.B.dylib"), Lc("LC_MAIN", "") >>,
          << Sym(<<"_", "p", "u", "t", "s">>, 1, 1, Ptr(200)),
             Sym(<<"_", "f", "p">>, 1, 1, HighValue) >>,
          0, FileBytes(PageSize) \o TaggedWith(Ptr(200), 1)
                 \o TaggedWith(HighValue, 15) \o HighValue)

\* a __got section and an __auth_got section in __DATA_CONST, and a __got
\* section in __DATA
ImgAuthGot ==
    MachO(<< Seg(S_TEXT, 0, PageSize, 0, P(1), 5, 5, << >>),
             Seg(S_DATA_CONST, PageSize, 2 * PtrSize, P(1), P(1), 3, 3,
                 << Sect(S_got, P(1), PtrSize, PageSize, S_NON_LAZY_SYMBOL_POINTERS),
                    Sect(S_auth_got, P(1) + PtrSize, PtrSize, PageSize + PtrSize,
                         S_NON_LAZY_SYMBOL_POINTERS) >>),
             Seg(S_DATA, PageSize + 2 * PtrSize, PtrSize, P(2), P(1), 3, 3,
                 << Sect(S_got, P(2), PtrSize, PageSize + 2 * PtrSize,
                         S_NON_LAZY_SYMBOL_POINTERS) >>) >>,
          << Lc("LC_LOAD_DYLIB", "/usr/lib/libSystem.B.dylib"), Lc("LC_MAIN", "") >>,
          << Sym(<<"_", "p", "u", "t", "s">>, 1, 1, Ptr(200)),
             Sym(<<"_", "f", "p">>, 1, 1, Ptr(208)) >>,
          0, FileBytes(PageSize) \o Ptr(200) \o Ptr(208) \o Ptr(200))

\* a weak dylib command for a library the host has not loaded, before a
\* required one
ImgWeakNotLoaded ==
    MachO(<< Seg(S_TEXT, 0, PageSize, 0, P(1), 5, 5, << >>) >>,
          << Lc("LC_LOAD_WEAK_DYLIB", "/usr/lib/libB.dylib"),
             Lc("LC_LOAD_DYLIB", "/usr/lib/libSystem.B.dylib"), Lc("LC_MAIN", "") >>,
          << >>, 0, FileBytes(PageSize))

Images == << ImgStatic, ImgDyn1, ImgDyn2, ImgHigh, ImgShare, ImgRwx, ImgNoExec,
             ImgMissingDylib, ImgUnresolved, ImgEmpty, ImgWrap, ImgBadGot,
             ImgBadOrdinal, ImgManyDylibs, ImgAllDylibs, ImgTags, ImgAuthGot,
             ImgWeakNotLoaded >>

\* the index of an image in the catalogue
ImageIndex(m) == CHOOSE i \in DOMAIN Images : Images[i] = m

\* One architecture of a fat container: its CPU type, where its slice is in
\* the file, and the image the slice holds.
FatArch(cputype, offset, size, image) ==
    [cputype |-> cputype, offset |-> offset, size |-> size, image |-> image]

\* fat containers: an x86_64 slice and an arm64 slice; an x86_64 slice only;
\* an arm64 slice of no bytes
FatFiles == <<
  [arches |-> << FatArch(16777223, 16, Len(ImgRwx.bytes), ImageIndex(ImgRwx)),
                 FatArch(CPU_TYPE_ARM64, 32, Len(ImgStatic.bytes), ImageIndex(ImgStatic)) >>,
   len |-> 32 + Len(ImgStatic.bytes)],
  [arches |-> << FatArch(16777223, 16, Len(ImgStatic.bytes), ImageIndex(ImgStatic)) >>,
   len |-> 16 + Len(ImgStatic.bytes)],
  [arches |-> << FatArch(CPU_TYPE_ARM64, 16, 0, ImageIndex(ImgStatic)) >>,
   len |-> 16] >>

\* ------------------------------------------------------------------ kernel
\* The state the operations act on:
\*   mem     the byte at each address
\*   prot    per page: mapped or not, current and maximum protection
\*   log     every call issued to the kernel, the host linker and the guest
\*   dylibs  the Room's dylib table
\*   loaded  the libraries loaded in the host process
\*   fail    "none", or the failure that stopped the load
\* One call: its kind, the segment, section and cell it is for, its address,
\* size and argument, and the value it returned or stored.
Ev(op, seg, sect, slot, addr, size, arg, val) ==
    [op |-> op, seg |-> seg, sect |-> sect, slot |-> slot,
     addr |-> addr, size |-> size, arg |-> arg, val |-> val]

Logged(w, e) == [w EXCEPT !.log = Append(@, e)]
Failed(w, kind) == IF w.fail = "none" THEN [w EXCEPT !.fail = kind] ELSE w

PageOf(a) == a \div PageSize
PagesOf(addr, size) == IF size = 0 THEN {} ELSE PageOf(addr) .. PageOf(addr + size - 1)
Mapped(prot, p) == p \in Pages /\ prot[p].mapped
Writable(prot, p) == Mapped(prot, p) /\ HasBit(prot[p].cur, VM_PROT_WRITE)

\* mach_vm_allocate(size, VM_FLAGS_ANYWHERE): whole pages, zero filled,
\* current protection rw-, maximum rwx; a size of 0 grants nothing and
\* reports the address 0
PagesFor(size) == (size \div PageSize) + (IF size % PageSize = 0 THEN 0 ELSE 1)
mach_vm_allocate(w, size) ==
    LET n == PagesFor(size)
    IN  [w EXCEPT
          !.prot = [p \in Pages |-> IF p < n
                                    THEN [mapped |-> TRUE, cur |-> 3, max |-> 7]
                                    ELSE @[p]],
          !.mem = [a \in Addrs |-> IF PageOf(a) < n THEN 0 ELSE @[a]]]

\* mach_vm_deallocate(address, size)
mach_vm_deallocate(w, addr, size) ==
    [w EXCEPT !.prot = [p \in Pages |-> IF p \in PagesOf(addr, size)
                                        THEN [mapped |-> FALSE, cur |-> 0, max |-> 0]
                                        ELSE @[p]]]

\* mach_vm_write(dst, src, count): TRUE iff the kernel accepts the write
mach_vm_write_ok(w, dst, count) ==
    \A p \in PagesOf(dst, count) : Writable(w.prot, p)
StoreBytes(mem, dst, data) ==
    [a \in Addrs |-> IF a >= dst /\ a < dst + Len(data) THEN data[a - dst + 1] ELSE mem[a]]

\* mach_vm_protect(address, size, set_maximum, new_protection)
mach_vm_protect_ok(w, addr, size, prot) ==
    \A p \in PagesOf(addr, size) :
        Mapped(w.prot, p) /\ ProtAnd(prot, w.prot[p].max) = prot
mach_vm_protect(w, addr, size, set_max, prot) ==
    [w EXCEPT !.prot = [p \in Pages |->
        IF p \notin PagesOf(addr, size) THEN @[p]
        ELSE IF set_max
             THEN [@[p] EXCEPT !.max = prot, !.cur = ProtAnd(prot, @)]
             ELSE [@[p] EXCEPT !.cur = prot]]]

\* mach_vm_region(address): the region holding the address or, when the
\* address is in none, the next region above it; -1 when there is none
mach_vm_region(w, addr) ==
    LET above == {p \in Pages : p >= PageOf(addr) /\ w.prot[p].mapped}
    IN  IF above = {} THEN -1 ELSE w.prot[Min(above)].cur

\* ---------------------------------------------------------------- vm.rs
\* copy_from_image(task, src, dst, count) and its unwrap_or_else(panic)
copy_from_image(w, seg, data, dst) ==
    LET l == Logged(w, Ev("copy", seg, 0, 0, dst, Len(data), 0, 0))
    IN  IF mach_vm_write_ok(w, dst, Len(data))
        THEN [l EXCEPT !.mem = StoreBytes(@, dst, data)]
        ELSE Failed(l, "MemWrite")

\* memory_protection_set(ptr, size, task, protection, max_protection)
memory_protection_set(w, seg, addr, size, prot, set_max) ==
    LET l == Logged(w, Ev("protect", seg, 0, 0, addr, size, prot, BitVal(set_max, 1)))
    IN  IF mach_vm_protect_ok(w, addr, size, prot)
        THEN mach_vm_protect(l, addr, size, set_max, prot)
        ELSE Failed(l, "ProtectFailed")

\* memory_check_protection(task, addr, prot): "err", or whether the region's
\* protection is the one asked for
memory_check_protection(w, addr, prot) ==
    IF mach_vm_region(w, addr) = -1 THEN "err"
    ELSE IF mach_vm_region(w, addr) = prot THEN "true" ELSE "false"

\* ------------------------------------------------------------ utilities.rs
\* read_ptr with the mask 0x7FFFFFFFFFFFFFFF: only bit 63 is cleared
read_ptr_clears_top_bit(data, offset) ==
    LET ptr == SubSeq(data, offset + 1, offset + PtrSize)
    IN  IF ptr[8] \div 16 # 0 THEN [ptr EXCEPT ![8] = @ % 128] ELSE ptr

\* read_ptr(is_64, data, offset): the 64-bit value at data[offset..], its
\* top nibble cleared when it is not zero
read_ptr(data, offset) ==
    LET ptr == SubSeq(data, offset + 1, offset + PtrSize)
    IN  IF ptr[8] \div 16 # 0 THEN [ptr EXCEPT ![8] = @ % 16] ELSE ptr

\* ------------------------------------------------------------------ room.rs
\* get_library_ordinal(n_desc) = ((n_desc >> 8) & 0xff) as u8
get_library_ordinal(n_desc) == (n_desc \div 256) % 256

\* Nlist::get_type(): n_type & N_TYPE (0x0e)
get_type(n_type) == (n_type % 16) - (n_type % 2)

\* Room::new, the size of the window: max(vmaddr + vmsize) - min(vmaddr),
\* saturating, 0 for no segments; vmaddr + vmsize is a u64 addition
vm_size_of(segments) ==
    LET min_addr == IF segments = << >> THEN U64(0)
                    ELSE MinBytes({vmaddr64(segments[i]) : i \in DOMAIN segments})
        max_addr == IF segments = << >> THEN U64(0)
                    ELSE MaxBytes({wrapping_add(vmaddr64(segments[i]), vmsize64(segments[i]))
                                     : i \in DOMAIN segments})
    IN  AsNat(saturating_sub(max_addr, min_addr))
\* `seg.vmaddr + seg.vmsize` overflows for some segment: a panic in a build
\* with overflow checks
vm_size_overflows(segments) ==
    \E i \in DOMAIN segments : add_overflows(vmaddr64(segments[i]), vmsize64(segments[i]))

\* vm::memory_alloc(vm_size, task): kr_ok is the kernel's answer, which is an
\* error for a size the address space cannot hold; an address of 0 (a size
\* of 0) is an error as well
memory_alloc(w, size, kr_ok) ==
    LET l == Logged(w, Ev("alloc", 0, 0, 0, 0, size, 0, 0))
    IN  IF kr_ok /\ size > 0 /\ PagesFor(size) <= NumPages THEN mach_vm_allocate(l, size)
        ELSE Failed(l, "AllocationFailed")

\* Drop for Room: vm::memory_dealloc(self.vm, self.vm_size, self.task)
drop_room(w, size) ==
    mach_vm_deallocate(Logged(w, Ev("dealloc", 0, 0, 0, 0, size, 0, 0)), 0, size)

\* dylib_load without the test of the handle
dylib_load_unchecked(w, i, path, flags) ==
    LET handle == dlopen(w.loaded, path, flags)
        l == Logged(w, Ev("dlopen", i, 0, 0, 0, 0, flags, handle))
    IN  [l EXCEPT !.loaded = @ \cup {path},
                  !.dylibs = Append(@, [path |-> path, handle |-> handle])]

\* Room::dylib_load(image_base, load_command_offset, name_offset, flags):
\* dlopen, and a panic on a null handle
dylib_load(w, i, path, flags) ==
    LET handle == dlopen(w.loaded, path, flags)
        l == Logged(w, Ev("dlopen", i, 0, 0, 0, 0, flags, handle))
    IN  IF handle = 0 THEN Failed(l, "DlopenFailed")
        ELSE [l EXCEPT !.loaded = @ \cup {path},
                       !.dylibs = Append(@, [path |-> path, handle |-> handle])]

\* the flags dylibs_load_in gives dlopen for each command variant
DylibFlags(cmd) ==
    CASE cmd \in {"LC_LOAD_DYLIB", "LC_LOAD_UPWARD_DYLIB", "LC_REEXPORT_DYLIB"}
            -> RTLD_DEFAULT_FLAGS
      [] cmd = "LC_LOAD_WEAK_DYLIB" -> RTLD_NOLOAD
      [] cmd = "LC_LAZY_LOAD_DYLIB" -> RTLD_LAZY
      [] OTHER -> -1

\* Room::dylibs_load_in, one load command
DylibsLoadOne(img, w, i) ==
    LET lc == img.load_commands[i]
    IN  IF w.fail # "none" \/ DylibFlags(lc.cmd) = -1 THEN w
        ELSE dylib_load(w, i, lc.path, DylibFlags(lc.cmd))

\* Room::dylibs_load_in, the load commands lo .. hi in their order (the
\* range is halved so that a long list of commands evaluates in few levels)
RECURSIVE dylibs_load_in(_, _, _, _)
dylibs_load_in(img, w, lo, hi) ==
    IF lo > hi THEN w
    ELSE IF lo = hi THEN DylibsLoadOne(img, w, lo)
    ELSE LET mid == (lo + hi) \div 2
             first == dylibs_load_in(img, w, lo, mid)
         IN  IF first.fail # "none" THEN first
             ELSE dylibs_load_in(img, first, mid + 1, hi)

\* Room::segments_initialize, from segment i on
RECURSIVE segments_initialize(_, _, _)
segments_initialize(img, w, i) ==
    IF i > Len(img.segments) \/ w.fail # "none" THEN w
    ELSE LET seg == img.segments[i]
             data == SubSeq(img.bytes, seg.fileoff + 1, seg.fileoff + seg.filesize)
         IN  segments_initialize(img, copy_from_image(w, i, data, SegAddr(seg)), i + 1)

\* Room::assert_protection(addr, prot): panics unless the check says true
assert_protection(w, seg, addr, prot, mismatch) ==
    LET l == Logged(w, Ev("readback", seg, 0, 0, addr, 0, prot, mach_vm_region(w, addr)))
        r == memory_check_protection(w, addr, prot)
    IN  IF r = "true" THEN l
        ELSE IF r = "false" THEN Failed(l, mismatch)
        ELSE Failed(l, "GetProtectionFailed")

\* the order of the two memory_protection_set calls: the values of
\* max_protection, in the order of the calls
ProtectOrder == << FALSE, TRUE >>

\* Room::segments_protection_apply, one segment
SealSegment(w, i, seg) ==
    LET w1 == memory_protection_set(w, i, SegAddr(seg), seg.vmsize, seg.initprot,
                                    ProtectOrder[1])
        w2 == IF w1.fail # "none" THEN w1
              ELSE memory_protection_set(w1, i, SegAddr(seg), seg.vmsize, seg.initprot,
                                         ProtectOrder[2])
    IN  IF w2.fail # "none" THEN w2
        ELSE assert_protection(w2, i, SegAddr(seg), seg.initprot, "ProtectionMismatch")

\* Room::segments_protection_apply, from segment i on
RECURSIVE segments_protection_apply(_, _, _)
segments_protection_apply(img, w, i) ==
    IF i > Len(img.segments) \/ w.fail # "none" THEN w
    ELSE IF segment_name_eq(img.segments[i].segname, S_PAGEZERO)
         THEN segments_protection_apply(img, w, i + 1)
         ELSE segments_protection_apply(img, SealSegment(w, i, img.segments[i]), i + 1)

\* `*offset_pointer = value`: a store through a raw pointer; it faults when
\* the page is not mapped or not writable
StorePtr(w, seg, sect, slot, addr, value) ==
    LET l == Logged(w, Ev("got_write", seg, sect, slot, addr, PtrSize, 0, value))
    IN  IF \A p \in PagesOf(addr, PtrSize) : Writable(w.prot, p)
        THEN [l EXCEPT !.mem = StoreBytes(@, addr, value)]
        ELSE Failed(l, "SIGBUS")

\* the address rebind_global_offset_table writes the resolved pointer of
\* cell nth_entry to
GotCellAddr(section, nth_entry) == section.addr

\* rebind_global_offset_table, one cell.  `lib_index - 1` is a u8
\* subtraction: for lib_index = 0 it panics in a build with overflow checks
\* and is 255 in a build without; the index into self.dylibs is bounds
\* checked.
RebindCell(img, w, si, ci, section, nth_entry) ==
    LET data == SubSeq(img.bytes, section.offset + 1, section.offset + section.size)
        ptr_value == read_ptr(data, nth_entry * PtrSize)
        found == {k \in DOMAIN img.symbols : img.symbols[k].n_value = ptr_value}
    IN  IF found = {} THEN Failed(w, "SymbolNotFound")
        ELSE LET nlist == img.symbols[Min(found)]
                 lib_index == get_library_ordinal(nlist.n_desc)
                 index == (lib_index + 255) % 256
             IN  IF get_type(nlist.n_type) # N_UNDF THEN Failed(w, "SymbolNotUndefined")
                 ELSE IF lib_index = 0 /\ w.checks THEN Failed(w, "ArithmeticOverflow")
                 ELSE IF index \notin 0 .. (Len(w.dylibs) - 1)
                      THEN Failed(w, "SymbolOrdinalOutOfRange")
                      ELSE LET cname == SubSeq(nlist.name, 2, Len(nlist.name))
                               new_pointer == dlsym(w.dylibs[index + 1].handle, cname)
                               l == Logged(w, Ev("dlsym", si, ci, nth_entry, 0, 0, Min(found), new_pointer))
                           IN  StorePtr(l, si, ci, nth_entry,
                                        GotCellAddr(section, nth_entry), new_pointer)

RECURSIVE RebindCells(_, _, _, _, _, _)
RebindCells(img, w, si, ci, section, nth_entry) ==
    IF nth_entry >= section.size \div PtrSize \/ w.fail # "none" THEN w
    ELSE RebindCells(img, RebindCell(img, w, si, ci, section, nth_entry),
                     si, ci, section, nth_entry + 1)

\* the sections of one segment, from section ci on
RECURSIVE RebindSections(_, _, _, _)
RebindSections(img, w, si, ci) ==
    IF ci > Len(img.segments[si].sections) \/ w.fail # "none" THEN w
    ELSE LET section == img.segments[si].sections[ci]
             type == section.flags % (SECTION_TYPE + 1)
         IN  IF ~segment_name_eq(section.sectname, S_got)
             THEN RebindSections(img, w, si, ci + 1)
             ELSE IF type \in {S_NON_LAZY_SYMBOL_POINTERS, S_LAZY_SYMBOL_POINTERS}
                  THEN RebindSections(img, RebindCells(img, w, si, ci, section, 0),
                                      si, ci + 1)
                  ELSE RebindSections(img, w, si, ci + 1)

\* Room::rebind_global_offset_table, from segment si on
RECURSIVE rebind_global_offset_table(_, _, _)
rebind_global_offset_table(img, w, si) ==
    IF si > Len(img.segments) \/ w.fail # "none" THEN w
    ELSE IF ~segment_name_eq(img.segments[si].segname, S_DATA_CONST)
         THEN rebind_global_offset_table(img, w, si + 1)
         ELSE rebind_global_offset_table(img, RebindSections(img, w, si, 1), si + 1)

\* One word of an argument vector: an integer, or a pointer to a byte string.
\* The null pointer is the integer 0.
IntWord(n) == [tag |-> "int", int |-> n, bytes |-> << >>]
StrPtr(s) == [tag |-> "ptr", int |-> 0, bytes |-> s]
\* no entry call yet
NoCall == [argc |-> 0, argv |-> << >>, envp |-> -1]

\* CString::as_bytes_with_nul, CStr::to_bytes_with_nul
as_bytes_with_nul(s) == s \o << NUL >>

\* program_arguments after the walk of the environment: the name, then each
\* environment string, all with their terminator
program_arguments(name, env) ==
    << as_bytes_with_nul(name) >> \o [k \in DOMAIN env |-> as_bytes_with_nul(env[k])]

\* envp after `while !(*envp).is_null() { ...; envp = envp.add(1) }`, as an
\* index of the host's environment array (0 is *_NSGetEnviron())
EnvpAfterWalk(env) == Len(env)

\* Room::jump_to_entry, argv: once(argc as *const u8) chained with the
\* pointers to the program arguments
room_argv(argc, args) == << IntWord(argc) >> \o [k \in DOMAIN args |-> StrPtr(args[k])]

\* Room::jump_to_entry up to the call: the argument vector, the protection
\* check of the entry address, then the call of the entry function
jump_to_entry(img, w, name) ==
    IF \E k \in DOMAIN name : name[k] = NUL THEN Failed(w, "NulError")
    ELSE
    LET argc == Len(<< as_bytes_with_nul(name) >>)
        args == program_arguments(name, w.environ)
        a == assert_protection(w, 0, img.entry, VM_PROT_READ + VM_PROT_EXECUTE,
                               "EntryNotExecutable")
    IN  IF a.fail # "none" THEN a
        ELSE [Logged(a, Ev("entry", 0, 0, 0, img.entry, 0, 0, mach_vm_region(a, img.entry)))
                EXCEPT !.call = [argc |-> argc, argv |-> room_argv(argc, args),
                                 envp |-> EnvpAfterWalk(w.environ)]]

\* ------------------------------------------------------- lib.rs, mach.rs
\* task_init with the size check off by one
task_init_check_off_by_one(ptr_null, len) ==
    IF ptr_null THEN "NullImage"
    ELSE IF len = 0 THEN "EmptyImage"
    ELSE IF len >= MaxImageLen THEN "ImageTooLarge"
    ELSE "none"

\* task_init, the checks before the parse: the failure, or "none"
task_init_check(ptr_null, len) ==
    IF ptr_null THEN "NullImage"
    ELSE IF len = 0 THEN "EmptyImage"
    ELSE IF len > MaxImageLen THEN "ImageTooLarge"
    ELSE "none"

\* Mach::parse(image) on len bytes holding image i: the parser rejects a
\* buffer shorter than the image
ParseOk(i, len) == len >= Len(Images[i].bytes)

\* mach.rs vm_alloc_self(size): panics on a kernel error and on a null address
vm_alloc_self(w, size, kr_ok) ==
    LET l == Logged(w, Ev("alloc", 0, 0, 0, 0, size, 0, 0))
    IN  IF kr_ok /\ size > 0 /\ PagesFor(size) <= NumPages THEN mach_vm_allocate(l, size)
        ELSE Failed(l, "AllocationFailed")

\* mach.rs copy_from_image(src, dst, count): panics on a kernel error
mach_copy_from_image(w, seg, data, dst) ==
    LET l == Logged(w, Ev("copy", seg, 0, 0, dst, Len(data), 0, 0))
    IN  IF mach_vm_write_ok(w, dst, Len(data))
        THEN [l EXCEPT !.mem = StoreBytes(@, dst, data)]
        ELSE Failed(l, "MemWrite")

\* mach.rs vm_protect(ptr, size, set_maximum, protection): panics on a kernel error
vm_protect(w, seg, addr, size, set_max, prot) ==
    LET l == Logged(w, Ev("protect", seg, 0, 0, addr, size, prot, BitVal(set_max, 1)))
    IN  IF mach_vm_protect_ok(w, addr, size, prot)
        THEN mach_vm_protect(l, addr, size, set_max, prot)
        ELSE Failed(l, "ProtectFailed")

\* Drop for Task: vm_dealloc_self(self.memory, self.memory_size)
drop_task(w, size) ==
    mach_vm_deallocate(Logged(w, Ev("dealloc", 0, 0, 0, 0, size, 0, 0)), 0, size)

\* task_init_from_macho, the copy of the segments from segment i on
RECURSIVE task_copy_segments(_, _, _)
task_copy_segments(img, w, i) ==
    IF i > Len(img.segments) \/ w.fail # "none" THEN w
    ELSE LET seg == img.segments[i]
             data == SubSeq(img.bytes, seg.fileoff + 1, seg.fileoff + seg.filesize)
         IN  task_copy_segments(img, mach_copy_from_image(w, i, data, SegAddr(seg)), i + 1)

\* task_init_from_macho(macho, image)
task_init_from_macho(img, w, kr_ok) ==
    IF w.checks /\ vm_size_overflows(img.segments) THEN Failed(w, "ArithmeticOverflow")
    ELSE task_copy_segments(img, vm_alloc_self(w, vm_size_of(img.segments), kr_ok), 1)

\* Task::dylibs_search: a map from the name of each dylib command to the
\* address of the name, here the position of the command; a later command
\* of the same name replaces the earlier one
dylibs_search(img, w) ==
    LET cmds == {k \in DOMAIN img.load_commands : DylibFlags(img.load_commands[k].cmd) # -1}
        names == {img.load_commands[k].path : k \in cmds}
    IN  [w EXCEPT !.task_dylibs =
            {[name |-> n, addr |-> Max({j \in cmds : img.load_commands[j].path = n})]
               : n \in names}]

\* MultiArch::find_cputype taking the first architecture whatever its type
find_cputype_any(arches, cputype) == IF arches = << >> THEN 0 ELSE 1

\* multi_arch.find_cputype(cputype): the first architecture of that CPU
\* type, 0 for None
find_cputype(arches, cputype) ==
    LET hits == {k \in DOMAIN arches : arches[k].cputype = cputype}
    IN  IF hits = {} THEN 0 ELSE Min(hits)

\* Mach::parse on len bytes holding the fat container f
ParseFatOk(f, len) == len >= FatFiles[f].len

\* task_init(ptr, len): ptr is null, or off bytes into the buffer; the
\* buffer holds the fat container f or, when f is 0, the image i
RECURSIVE task_init(_, _, _, _, _, _, _)
task_init(w, ptr_null, off, len, f, i, kr_ok) ==
    IF task_init_check(ptr_null, len) # "none"
    THEN Failed(w, task_init_check(ptr_null, len))
    ELSE LET l == Logged(w, Ev("parse", 0, 0, 0, off, len, IF f = 0 THEN i ELSE 0, 0))
         IN  IF f = 0
             THEN IF ~ParseOk(i, len) THEN Failed(l, "ParseFailed")
                  ELSE IF ~Images[i].is_64 THEN Failed(l, "Not64")
                  ELSE LET t == task_init_from_macho(Images[i], l, kr_ok)
                       IN  IF t.fail # "none" THEN t ELSE dylibs_search(Images[i], t)
             ELSE IF ~ParseFatOk(f, len) THEN Failed(l, "ParseFailed")
             ELSE LET k == find_cputype(FatFiles[f].arches, CPU_TYPE_ARM64)
                  IN  IF k = 0 THEN Failed(l, "NoSuitableArch")
                      ELSE LET arch == FatFiles[f].arches[k]
                           IN  IF arch.offset + arch.size > len
                               THEN Failed(l, "SliceOutOfRange")
                               ELSE task_init(l, FALSE, off + arch.offset, arch.size,
                                              0, arch.image, kr_ok)

\* Task::segments_protect, one segment: the two vm_protect calls
TaskProtectSegment(w, i, seg) ==
    LET w1 == vm_protect(w, i, SegAddr(seg), seg.filesize, FALSE, seg.initprot)
    IN  IF w1.fail # "none" THEN w1
        ELSE vm_protect(w1, i, SegAddr(seg), seg.filesize, TRUE, seg.initprot)

\* Task::segments_protect, from segment i on
RECURSIVE segments_protect(_, _, _)
segments_protect(img, w, i) ==
    IF i > Len(img.segments) \/ w.fail # "none" THEN w
    ELSE segments_protect(img, TaskProtectSegment(w, i, img.segments[i]), i + 1)

\* Task.symbols, which link_raw indexes by cell position: the (name, symoff)
\* pairs of the image's symbol table, in its order
TaskSymbols(img) == [k \in DOMAIN img.symbols |-> img.symbols[k].n_value]

\* Linker::link_raw, the cells of one section from cell index on
RECURSIVE LinkCells(_, _, _, _, _, _)
LinkCells(img, w, si, ci, section, index) ==
    IF index >= section.size \div 8 \/ w.fail # "none" THEN w
    ELSE IF index + 1 \notin DOMAIN TaskSymbols(img) THEN Failed(w, "SymbolNotFound")
    ELSE LinkCells(img,
                   StorePtr(w, si, ci, index, section.addr + index * 8,
                            TaskSymbols(img)[index + 1]),
                   si, ci, section, index + 1)

RECURSIVE LinkSections(_, _, _, _)
LinkSections(img, w, si, ci) ==
    IF ci > Len(img.segments[si].sections) \/ w.fail # "none" THEN w
    ELSE LET section == img.segments[si].sections[ci]
             type == section.flags % (SECTION_TYPE + 1)
         IN  IF section.sectname # Pad16(S_got) /\ section.sectname # Pad16(S_auth_got)
             THEN LinkSections(img, w, si, ci + 1)
             ELSE IF type \in {S_NON_LAZY_SYMBOL_POINTERS, S_LAZY_SYMBOL_POINTERS}
                  THEN LinkSections(img, LinkCells(img, w, si, ci, section, 0), si, ci + 1)
                  ELSE Failed(w, "BadGotSection")

\* Linker::link_raw(task), from segment si on
RECURSIVE link_raw(_, _, _)
link_raw(img, w, si) ==
    IF si > Len(img.segments) \/ w.fail # "none" THEN w
    ELSE IF img.segments[si].segname # Pad16(S_DATA_CONST)
         THEN link_raw(img, w, si + 1)
         ELSE link_raw(img, LinkSections(img, w, si, 1), si + 1)

\* the name jumper gives the program
DummyName == << "d", "u", "m", "m", "y", "_", "n", "a", "m", "e" >>

\* jumper, argv: a Vec<&[u8]> read as *const *const u8, so that each slice
\* is two words, its pointer and its length
RECURSIVE jumper_argv(_)
jumper_argv(args) ==
    IF args = << >> THEN << >>
    ELSE << StrPtr(Head(args)), IntWord(Len(Head(args))) >> \o jumper_argv(Tail(args))

\* jumper(memory, entry_point) up to the call of the entry function
jumper(img, w) ==
    LET argc == Len(<< as_bytes_with_nul(DummyName) >>)
        args == program_arguments(DummyName, w.environ)
    IN  [Logged(w, Ev("entry", 0, 0, 0, img.entry, 0, 0, mach_vm_region(w, img.entry)))
           EXCEPT !.call = [argc |-> argc, argv |-> jumper_argv(args),
                            envp |-> EnvpAfterWalk(w.environ)]]

\* ------------------------------------------------------------ state machine
VARIABLES
    driver,   \* "room": exec_jit; "task": bin/main.rs
    img,      \* the image being loaded: an index of Images
    image_ptr_null, image_len,   \* the pointer and length given to the loader
    foreign,  \* whether the host has memory mapped next to the window
    pc,       \* where the loader is
    vm_size,  \* Room.vm_size
    mem, prot, log, dylibs, loaded, fail,
    fat,      \* the buffer is a fat container: an index of FatFiles, or 0
    prog_name,        \* the program name the jump is given
    environ,          \* the environment strings of the host process
    overflow_checks,  \* the build panics on integer overflow (debug) or wraps
    call,             \* the arguments the entry function was called with
    task_dylibs       \* Task.dylibs

host == << fat, prog_name, environ, overflow_checks >>
vars == << driver, img, image_ptr_null, image_len, foreign, pc, vm_size, mem, prot, log, dylibs, loaded, fail, host, call, task_dylibs >>

Image == Images[img]
World == [mem |-> mem, prot |-> prot, log |-> log, dylibs |-> dylibs,
          loaded |-> loaded, fail |-> fail, call |-> call,
          task_dylibs |-> task_dylibs, environ |-> environ,
          checks |-> overflow_checks]
SetWorld(r) ==
    /\ mem' = r.mem
    /\ prot' = r.prot
    /\ log' = r.log
    /\ dylibs' = r.dylibs
    /\ loaded' = r.loaded
    /\ fail' = r.fail
    /\ call' = r.call
    /\ task_dylibs' = r.task_dylibs

\* exec_jit with the GOT rebinding and the protection seal exchanged
exec_jit_next_seal_first(stage) ==
    CASE stage = "new" -> "dylibs_load_in"
      [] stage = "dylibs_load_in" -> "segments_initialize"
      [] stage = "segments_initialize" -> "segments_protection_apply"
      [] stage = "segments_protection_apply" -> "rebind_global_offset_table"
      [] stage = "rebind_global_offset_table" -> "jump_to_entry"
      [] stage = "jump_to_entry" -> "guest"

\* exec_jit: the stage that follows each stage
exec_jit_next(stage) ==
    CASE stage = "new" -> "dylibs_load_in"
      [] stage = "dylibs_load_in" -> "segments_initialize"
      [] stage = "segments_initialize" -> "rebind_global_offset_table"
      [] stage = "rebind_global_offset_table" -> "segments_protection_apply"
      [] stage = "segments_protection_apply" -> "jump_to_entry"
      [] stage = "jump_to_entry" -> "guest"

\* A stage of exec_jit ended with the world r.  A panic unwinds exec_jit
\* and drops exec_room; a fault ends the process at once.
EndStage(r) ==
    IF r.fail = "none" THEN pc' = exec_jit_next(pc) /\ SetWorld(r)
    ELSE IF r.fail = "SIGBUS" THEN pc' = "crashed" /\ SetWorld(r)
    ELSE pc' = "panicked" /\ SetWorld(drop_room(r, vm_size))

\* the environments of the host process
EnvChoices ==
    { << >>, << << "A", "=", "1" >> >>, << << "A", "=", "1" >>, << "B", "=", "2" >> >> }
\* the names exec_jit is given: one has a NUL inside
NameChoices == { << "a" >>, << "a", NUL, "b" >> }

\* the lengths a buffer holding image i is given with
LenChoices(i) == {0, 1, Len(Images[i].bytes), MaxImageLen, MaxImageLen + 1}
\* the lengths a buffer holding the fat container f is given with
FatLenChoices(f) == {0, 1, FatFiles[f].len, MaxImageLen, MaxImageLen + 1}

\* the image task_init loaded: the one of the last parse
LoadedImage(w, i) ==
    LET parsed == {k \in DOMAIN w.log : w.log[k].op = "parse" /\ w.log[k].arg # 0}
    IN  IF parsed = {} THEN i ELSE w.log[Max(parsed)].arg

Init ==
    /\ driver \in {"room", "task"}
    /\ fat \in IF driver = "room" THEN {0} ELSE 0 .. Len(FatFiles)
    /\ img \in IF fat = 0 THEN DOMAIN Images ELSE {0}
    /\ foreign \in BOOLEAN
    /\ IF driver = "room"
       THEN image_ptr_null = FALSE /\ image_len = Len(Images[img].bytes)
       ELSE /\ image_ptr_null \in BOOLEAN
            /\ image_len \in IF fat = 0 THEN LenChoices(img) ELSE FatLenChoices(fat)
    /\ pc = IF driver = "room" THEN "new" ELSE "with_pointer"
    /\ vm_size = 0
    /\ mem = [a \in Addrs |-> IF foreign THEN ForeignByte ELSE 0]
    /\ prot = [p \in Pages |-> [mapped |-> foreign, cur |-> IF foreign THEN 3 ELSE 0,
                                max |-> IF foreign THEN 7 ELSE 0]]
    /\ log = << >>
    /\ dylibs = << >>
    /\ loaded = {HostLibs[i].path : i \in {j \in DOMAIN HostLibs : HostLibs[j].loaded}}
    /\ fail = "none"
    /\ prog_name \in IF driver = "room" THEN NameChoices ELSE {DummyName}
    /\ environ \in EnvChoices
    /\ overflow_checks \in BOOLEAN
    /\ call = NoCall
    /\ task_dylibs = {}

\* Room::new: the task port, the size, the allocation.  A panic here is
\* before the Room exists: nothing is dropped.
RoomNew ==
    /\ pc = "new"
    /\ \E task_ok \in BOOLEAN, kr_ok \in BOOLEAN :
         LET size == vm_size_of(Image.segments)
             r == IF ~task_ok THEN Failed(World, "TaskForPidFailed")
                  ELSE IF overflow_checks /\ vm_size_overflows(Image.segments)
                       THEN Failed(World, "ArithmeticOverflow")
                       ELSE memory_alloc(World, size, kr_ok)
         IN  /\ SetWorld(r)
             /\ IF r.fail = "none"
                THEN pc' = exec_jit_next(pc) /\ vm_size' = size
                ELSE pc' = "panicked" /\ vm_size' = vm_size
    /\ UNCHANGED << driver, img, image_ptr_null, image_len, foreign, host >>

DylibsLoadIn ==
    /\ pc = "dylibs_load_in"
    /\ EndStage(dylibs_load_in(Image, World, 1, Len(Image.load_commands)))
    /\ UNCHANGED << driver, img, image_ptr_null, image_len, foreign, vm_size, host >>

SegmentsInitialize ==
    /\ pc = "segments_initialize"
    /\ EndStage(segments_initialize(Image, World, 1))
    /\ UNCHANGED << driver, img, image_ptr_null, image_len, foreign, vm_size, host >>

RebindGlobalOffsetTable ==
    /\ pc = "rebind_global_offset_table"
    /\ EndStage(rebind_global_offset_table(Image, World, 1))
    /\ UNCHANGED << driver, img, image_ptr_null, image_len, foreign, vm_size, host >>

SegmentsProtectionApply ==
    /\ pc = "segments_protection_apply"
    /\ EndStage(segments_protection_apply(Image, World, 1))
    /\ UNCHANGED << driver, img, image_ptr_null, image_len, foreign, vm_size, host >>

JumpToEntry ==
    /\ pc = "jump_to_entry"
    /\ EndStage(jump_to_entry(Image, World, prog_name))
    /\ UNCHANGED << driver, img, image_ptr_null, image_len, foreign, vm_size, host >>

\* bin/main.rs: the stage that follows each stage
main_next(stage) ==
    CASE stage = "with_pointer" -> "segments_protect"
      [] stage = "segments_protect" -> "link_raw"
      [] stage = "link_raw" -> "jumper"
      [] stage = "jumper" -> "guest"

\* A stage of main ended with the world r.  A panic unwinds main and drops
\* the task; a fault ends the process at once.
EndMainStage(r) ==
    IF r.fail = "none" THEN pc' = main_next(pc) /\ SetWorld(r)
    ELSE IF r.fail = "SIGBUS" THEN pc' = "crashed" /\ SetWorld(r)
    ELSE pc' = "panicked" /\ SetWorld(drop_task(r, vm_size))

\* Task::with_pointer.  A panic here is before the Task exists: nothing is
\* dropped.
TaskWithPointer ==
    /\ pc = "with_pointer"
    /\ \E kr_ok \in BOOLEAN :
         LET r == task_init(World, image_ptr_null, 0, image_len, fat, img, kr_ok)
         IN  /\ SetWorld(r)
             /\ img' = LoadedImage(r, img)
             /\ IF r.fail = "none"
                THEN pc' = main_next(pc) /\ vm_size' = vm_size_of(Images[img'].segments)
                ELSE pc' = "panicked" /\ vm_size' = vm_size
    /\ UNCHANGED << driver, image_ptr_null, image_len, foreign, host >>

TaskSegmentsProtect ==
    /\ pc = "segments_protect"
    /\ EndMainStage(segments_protect(Image, World, 1))
    /\ UNCHANGED << driver, img, image_ptr_null, image_len, foreign, vm_size, host >>

LinkRaw ==
    /\ pc = "link_raw"
    /\ EndMainStage(link_raw(Image, World, 1))
    /\ UNCHANGED << driver, img, image_ptr_null, image_len, foreign, vm_size, host >>

Jumper ==
    /\ pc = "jumper"
    /\ EndMainStage(jumper(Image, World))
    /\ UNCHANGED << driver, img, image_ptr_null, image_len, foreign, vm_size, host >>

\* the protection contains read and execute
HasRX(p) == p # -1 /\ HasBit(p, VM_PROT_READ) /\ HasBit(p, VM_PROT_EXECUTE)

\* the entry function's return followed by a return to the caller, which
\* drops the Room
after_entry_returns_to_caller(w, size) == drop_room(w, size)

\* what follows the return of the entry function: std::process::exit(0)
after_entry_returns(w, size) == Logged(w, Ev("exit", 0, 0, 0, 0, 0, 0, 0))

\* The entry function runs in the guest's code; it can return only when its
\* page can be read and executed.
EntryReturns ==
    /\ pc = "guest"
    /\ HasRX(mach_vm_region(World, Image.entry))
    /\ pc' = "exited"
    /\ SetWorld(after_entry_returns(World, vm_size))
    /\ UNCHANGED << driver, img, image_ptr_null, image_len, foreign, vm_size, host >>

\* the call of an entry address that cannot be executed faults
EntryFaults ==
    /\ pc = "guest"
    /\ ~HasRX(mach_vm_region(World, Image.entry))
    /\ pc' = "crashed"
    /\ UNCHANGED << driver, img, image_ptr_null, image_len, foreign, vm_size,
                    mem, prot, log, dylibs, loaded, fail, host, call, task_dylibs >>

Next ==
    \/ RoomNew
    \/ DylibsLoadIn
    \/ SegmentsInitialize
    \/ RebindGlobalOffsetTable
    \/ SegmentsProtectionApply
    \/ JumpToEntry
    \/ TaskWithPointer
    \/ TaskSegmentsProtect
    \/ LinkRaw
    \/ Jumper
    \/ EntryReturns
    \/ EntryFaults

Spec == Init /\ [][Next]_vars

\* ------------------------------------------------------------------ claims
Events(op) == {i \in DOMAIN log : log[i].op = op}
EntryCalled == Events("entry") # {}
\* the loader is past the stage: the stage ended without a failure
RoomPast(stages) == driver = "room" /\ pc \in stages
AfterRebind == {"segments_protection_apply", "jump_to_entry", "guest", "exited"}
AfterSeal == {"jump_to_entry", "guest", "exited"}
IsPageZero(i) == segment_name_eq(Image.segments[i].segname, S_PAGEZERO)

\* C1: every failure before the entry jump gives control back to the caller
\* with a negative error code; none ends the process by a panic or a fault.
\* "returned" is where the caller has the error code in hand.
C1_FailureIsReturned == fail # "none" => pc = "returned"

\* C2: in every run of exec_jit the calls are in the order of the stages:
\* allocation, dlopen, segment copies, GOT cell writes, protection changes
\* with their readbacks, the entry check and the entry call, the exit.
StageRank(e) ==
    CASE e.op = "alloc" -> 0
      [] e.op = "dlopen" -> 1
      [] e.op = "copy" -> 2
      [] e.op \in {"dlsym", "got_write"} -> 3
      [] e.op = "protect" -> 4
      [] e.op = "readback" -> IF e.seg = 0 THEN 5 ELSE 4
      [] e.op = "entry" -> 5
      [] e.op = "exit" -> 6
      [] OTHER -> 7
C2_StagesInOrder ==
    driver = "room" =>
        \A i \in 1 .. (Len(log) - 1) : StageRank(log[i]) <= StageRank(log[i + 1])
C2_Witness ==
    /\ driver = "room"
    /\ pc = "guest"
    /\ \A op \in {"dlopen", "copy", "got_write", "protect", "entry"} : Events(op) # {}

\* the handled GOT sections: <<segment, section>> of a __DATA_CONST segment,
\* named __got, of a symbol pointer type, with at least one cell
GotSections ==
    {sc \in {<<si, ci>> : si \in DOMAIN Image.segments, ci \in 1 .. 4} :
        /\ sc[2] \in DOMAIN Image.segments[sc[1]].sections
        /\ segment_name_eq(Image.segments[sc[1]].segname, S_DATA_CONST)
        /\ LET section == Image.segments[sc[1]].sections[sc[2]]
           IN  /\ segment_name_eq(section.sectname, S_got)
               /\ section.flags % (SECTION_TYPE + 1)
                      \in {S_NON_LAZY_SYMBOL_POINTERS, S_LAZY_SYMBOL_POINTERS}
               /\ section.size \div PtrSize >= 1}
\* the eight bytes of the cell at addr
Cell(addr) == [k \in 1 .. PtrSize |-> mem[addr + k - 1]]
\* what dlsym returned for cell i of the section
Resolved(sc, i) ==
    {log[k].val : k \in {e \in Events("dlsym") :
        log[e].seg = sc[1] /\ log[e].sect = sc[2] /\ log[e].slot = i}}

\* C3: after rebind_global_offset_table, every cell i of a handled GOT
\* section holds the address dlsym returned for cell i's own symbol.
C3_EveryCellRebound ==
    RoomPast(AfterRebind) =>
        \A sc \in GotSections :
            LET section == Image.segments[sc[1]].sections[sc[2]]
            IN  \A i \in 0 .. (section.size \div PtrSize - 1) :
                    /\ Resolved(sc, i) # {}
                    /\ Cell(section.addr + PtrSize * i) \in Resolved(sc, i)

\* C4: right after the segment copies, every segment's file bytes are at
\* vm + vmaddr and the rest of its VM range is zero.
C4_SegmentsMapped ==
    RoomPast({"rebind_global_offset_table"}) =>
        \A i \in DOMAIN Image.segments :
            LET seg == Image.segments[i]
            IN  /\ \A b \in seg.fileoff .. (seg.fileoff + seg.filesize - 1) :
                       mem[seg.vmaddr + (b - seg.fileoff)] = Image.bytes[b + 1]
                /\ \A a \in (seg.vmaddr + seg.filesize) .. (seg.vmaddr + seg.vmsize - 1) :
                       mem[a] = 0

\* C5: once the sealer is done, every segment but __PAGEZERO has initprot as
\* its current protection on all of its range, and a readback that differs
\* stops the load before the entry call.
C5_SealedAsInitprot ==
    /\ RoomPast(AfterSeal) =>
           \A i \in DOMAIN Image.segments :
               ~IsPageZero(i) =>
                   \A p \in PagesOf(Image.segments[i].vmaddr, Image.segments[i].vmsize) :
                       Mapped(prot, p) /\ prot[p].cur = Image.segments[i].initprot
    /\ (driver = "room" /\ \E k \in Events("readback") :
                               log[k].seg # 0 /\ log[k].val # log[k].arg)
           => ~EntryCalled

\* C6: no copy, no protect and no readback is ever issued for __PAGEZERO.
C6_PageZeroUntouched ==
    \A k \in DOMAIN log :
        (log[k].op \in {"copy", "protect", "readback"} /\ log[k].seg # 0)
            => ~IsPageZero(log[k].seg)

\* a failure of the load after the window was allocated: a panic or a fault
\* of a stage, or a GOT symbol that dlsym did not resolve
Allocated == driver = "room" /\ Events("alloc") # {} /\ pc \notin {"new"}
                 /\ fail \notin {"AllocationFailed", "TaskForPidFailed"}
LoadFailed == fail # "none" \/ \E k \in Events("dlsym") : log[k].val = NullPtr
Ended == pc \in {"panicked", "crashed", "guest", "exited"}

\* C7: a load that fails after the window was allocated deallocates the
\* window exactly once and never calls the entry function.
C7_FailureReleasesWindow ==
    (Allocated /\ LoadFailed) =>
        /\ ~EntryCalled
        /\ Ended => Cardinality(Events("dealloc")) = 1

\* C8: task_init checks null, then empty, then longer than 100,000,000, all
\* before the parse; 100,000,000 passes, 100,000,001 is ImageTooLarge, and
\* a failed check means no parse of that buffer and no allocation.  (When
\* the buffer is a fat container its arm64 slice goes through the same
\* checks after the container was parsed; the slice is never parsed then.)
SizeFailures == {"NullImage", "EmptyImage", "ImageTooLarge"}
C8_ValidationOrder ==
    (driver = "task" /\ pc # "with_pointer") =>
        /\ image_ptr_null => (fail = "NullImage" /\ Events("parse") = {})
        /\ (~image_ptr_null /\ image_len = 0)
               => (fail = "EmptyImage" /\ Events("parse") = {})
        /\ (~image_ptr_null /\ image_len > 100000000)
               => (fail = "ImageTooLarge" /\ Events("parse") = {})
        /\ (~image_ptr_null /\ image_len > 0 /\ image_len <= 100000000)
               => /\ \E k \in Events("parse") : log[k].size = image_len
                  /\ fail \in SizeFailures => fat # 0
        /\ fail \in SizeFailures =>
               /\ Events("alloc") = {}
               /\ \A k \in Events("parse") : log[k].arg = 0 /\ log[k].size = image_len
C8_Witness ==
    /\ driver = "task"
    /\ ~image_ptr_null
    /\ image_len = 100000001
    /\ fat = 0
    /\ pc = "panicked"
    /\ fail = "ImageTooLarge"
    /\ log = << >>

\* C9: the entry function is called iff the protection of the entry address
\* contains read and execute: it is never called without them, and with
\* them (write or not) the load does not fail as EntryNotExecutable.
C9_JumpIffReadExecute ==
    /\ \A k \in Events("entry") : HasRX(log[k].val)
    /\ fail = "EntryNotExecutable" =>
           \E k \in Events("readback") : log[k].seg = 0 /\ ~HasRX(log[k].val)

\* C10: once the entry function is called the window is never deallocated,
\* no loader error is raised, jump_to_entry does not return, and the return
\* of the entry function ends the process with exit status 0.
C10_NoReturnAfterEntry ==
    EntryCalled =>
        /\ Events("dealloc") = {}
        /\ fail = "none"
        /\ pc \in {"guest", "exited", "crashed"}
        /\ \A p \in Pages : p < PagesFor(vm_size) => prot[p].mapped
        /\ pc = "exited" => (log[Len(log)].op = "exit" /\ log[Len(log)].arg = 0)
C10_Witness == EntryCalled /\ pc = "exited" /\ log[Len(log)].op = "exit"

\* C11: jump_to_entry calls the entry function with argc = 1, an argument vector made
\* of the program name (with its terminator), then the environment strings
\* in the environment's order, then a null pointer, and with the host's
\* environment pointer as envp.
C11_ArgumentVector ==
    (driver = "room" /\ EntryCalled) =>
        /\ call.argc = 1
        /\ call.argv = << StrPtr(prog_name \o << NUL >>) >>
                           \o [k \in DOMAIN environ |-> StrPtr(environ[k] \o << NUL >>)]
                           \o << IntWord(0) >>
        /\ call.envp = 0

\* C12: for a fat container that task_init accepts, the architecture loaded
\* is the first one of CPU type arm64 and no other: its slice, at its offset
\* and of its size, goes through task_init again (an empty slice is
\* EmptyImage); with no arm64 architecture the load fails as NoSuitableArch
\* with no allocation and no entry call.
C12_FatSelectsArm64 ==
    /\ (driver = "task" /\ fat # 0 /\ pc # "with_pointer" /\ ~image_ptr_null
            /\ image_len \in FatFiles[fat].len .. 100000000) =>
           LET arches == FatFiles[fat].arches
               arm == {k \in DOMAIN arches : arches[k].cputype = 16777228}
               parses == [k \in Events("parse") |-> << log[k].addr, log[k].size, log[k].arg >>]
           IN  IF arm = {}
               THEN /\ fail = "NoSuitableArch"
                    /\ img = 0
                    /\ Cardinality(Events("parse")) = 1
               ELSE LET a == arches[Min(arm)]
                    IN  IF a.size = 0
                        THEN /\ fail = "EmptyImage"
                             /\ Cardinality(Events("parse")) = 1
                             /\ Events("alloc") = {}
                        ELSE /\ img = a.image
                             /\ Cardinality(Events("parse")) = 2
                             /\ \E k \in Events("parse") :
                                    parses[k] = << a.offset, a.size, a.image >>
                             /\ \A k \in Events("copy") :
                                    log[k].size = Images[a.image].segments[log[k].seg].filesize
    /\ fail = "NoSuitableArch" => (Events("alloc") = {} /\ ~EntryCalled)
C12_Witness ==
    /\ driver = "task"
    /\ fat # 0
    /\ pc = "guest"
    /\ img = ImageIndex(ImgStatic)
    /\ Cardinality(Events("parse")) = 2

\* C13: for an image with no segment, Room::new has vm_size = 0 and issues
\* no allocate call, no segment is copied or protected, and the load fails
\* at the protection readback of the entry address: not before it, and not
\* by calling the entry function.
C13_NoSegments ==
    (driver = "room" /\ Image.segments = << >> /\ pc # "new"
        /\ fail # "TaskForPidFailed") =>
        /\ vm_size = 0
        /\ Events("alloc") = {}
        /\ Events("copy") = {} /\ Events("protect") = {}
        /\ ~EntryCalled
        /\ fail # "none" =>
               /\ fail \in {"EntryNotExecutable", "GetProtectionFailed", "NulError"}
               /\ fail # "NulError" => \E k \in Events("readback") : log[k].seg = 0

\* vmaddr + vmsize of a segment and the lowest vmaddr, as numbers of nine
\* bytes: exact for every 64-bit vmaddr and vmsize
ExactEnd(seg) ==
    wrapping_add(vmaddr64(seg), vmsize64(seg))
        \o << CarryInto(vmaddr64(seg), vmsize64(seg), 9) >>
ExactSize(segments) ==
    IF segments = << >> THEN U64(0) \o << 0 >>
    ELSE SubBytes(MaxBytes({ExactEnd(segments[i]) : i \in DOMAIN segments}),
                  MinBytes({vmaddr64(segments[i]) : i \in DOMAIN segments}) \o << 0 >>)

\* C14: the size given to allocate is max(vmaddr + vmsize) - min(vmaddr)
\* over the segments, exact for every 64-bit vmaddr and vmsize, 0 for no
\* segment; Room::new computes it and allocates, and the size given to
\* deallocate on drop is the same.
C14_WindowSize ==
    /\ \A k \in Events("alloc") :
           /\ U64(log[k].size) \o << 0 >> = ExactSize(Image.segments)
           /\ \A d \in Events("dealloc") : log[d].size = log[k].size
    /\ (driver = "room" /\ pc # "new" /\ fail # "TaskForPidFailed")
           => Events("alloc") # {}
    /\ (driver = "room" /\ pc \notin {"new", "panicked"})
           => U64(vm_size) \o << 0 >> = ExactSize(Image.segments)

\* the sections of __DATA_CONST named as a GOT whose type is not a symbol
\* pointer type
BadGotSections ==
    IF img = 0 THEN {}
    ELSE {sc \in {<<si, ci>> : si \in DOMAIN Image.segments, ci \in 1 .. 4} :
            /\ sc[2] \in DOMAIN Image.segments[sc[1]].sections
            /\ segment_name_eq(Image.segments[sc[1]].segname, S_DATA_CONST)
            /\ LET section == Image.segments[sc[1]].sections[sc[2]]
               IN  /\ \/ segment_name_eq(section.sectname, S_got)
                      \/ segment_name_eq(section.sectname, S_auth_got)
                   /\ section.flags % 256 \notin {6, 7}}

\* C16: a GOT-named section of __DATA_CONST whose type is neither 0x6 nor
\* 0x7 stops the load in the rebinding: the load never gets to the seal or
\* to the entry call, and no cell of that section is written.
C16_BadGotSectionIsFatal ==
    /\ RoomPast(AfterRebind) => BadGotSections = {}
    /\ BadGotSections # {} =>
           /\ ~EntryCalled
           /\ \A k \in Events("got_write") : << log[k].seg, log[k].sect >> \notin BadGotSections

\* the symbol that cell i of a GOT section refers to: the first symbol whose
\* n_value is the cell's pre-link value without its tag, 0 for none
CellSymbol(sc, i) ==
    LET section == Image.segments[sc[1]].sections[sc[2]]
        bytes == SubSeq(Image.bytes, section.offset + PtrSize * i + 1,
                        section.offset + PtrSize * i + PtrSize)
        value == [bytes EXCEPT ![8] = @ % 16]
        found == {k \in DOMAIN Image.symbols : Image.symbols[k].n_value = value}
    IN  IF found = {} THEN 0 ELSE Min(found)
OrdinalOf(k) == (Image.symbols[k].n_desc \div 256) % 256
\* some cell of a handled GOT section refers to a symbol whose library
\* ordinal is 0 or above the number of entries of the dylib table
HasBadOrdinal ==
    \E sc \in GotSections :
        \E i \in 0 .. (Image.segments[sc[1]].sections[sc[2]].size \div PtrSize - 1) :
            /\ CellSymbol(sc, i) # 0
            /\ OrdinalOf(CellSymbol(sc, i)) \notin 1 .. Len(dylibs)

\* C17: the rebinding looks a symbol up only with a library ordinal in
\* [1, dylibs.len]; a cell whose symbol has ordinal 0 or an ordinal above
\* dylibs.len stops the load: no dlsym call for it, the rebinding does not
\* complete, the entry function is not called.
C17_OrdinalInRange ==
    driver = "room" =>
        /\ \A k \in Events("dlsym") : OrdinalOf(log[k].arg) \in 1 .. Len(dylibs)
        /\ RoomPast(AfterRebind) => ~HasBadOrdinal

\* C18: a null result of dlsym stops the load: the null is not written to
\* the cell, no later cell is looked up, nothing is protected and the entry
\* function is not called.
C18_DlsymNullIsFatal ==
    \A k \in Events("dlsym") :
        log[k].val = NullPtr =>
            /\ \A j \in DOMAIN log :
                   j > k => log[j].op \notin {"got_write", "dlsym", "protect", "entry"}
            /\ pc # "rebind_global_offset_table" => fail # "none"

\* the load commands that name a library
IsDylibCommand(lc) ==
    lc.cmd \in {"LC_LOAD_DYLIB", "LC_LOAD_UPWARD_DYLIB", "LC_REEXPORT_DYLIB",
                "LC_LOAD_WEAK_DYLIB", "LC_LAZY_LOAD_DYLIB"}
AfterDylibs == {"segments_initialize", "rebind_global_offset_table"} \cup AfterRebind
\* the positions in the log of the dlopen calls, in their order
DlopenCalls == SelectSeq([k \in DOMAIN log |-> k], LAMBDA k : log[k].op = "dlopen")

\* C19: once dylibs_load_in is done, the dylib table has one entry for each
\* dylib load command of the five variants, in the order of the commands
\* (the same path twice gives two entries): the command's path and the
\* handle dlopen gave for it, never null; no other command adds an entry.
C19_DylibTable ==
    RoomPast(AfterDylibs) =>
        LET cmds == SelectSeq(Image.load_commands, IsDylibCommand)
        IN  /\ Len(dylibs) = Len(cmds)
            /\ Len(DlopenCalls) = Len(cmds)
            /\ \A k \in DOMAIN cmds :
                   /\ dylibs[k].path = cmds[k].path
                   /\ dylibs[k].handle # 0
                   /\ dylibs[k].handle = log[DlopenCalls[k]].val
                   /\ Image.load_commands[log[DlopenCalls[k]].seg] = cmds[k]
C19_Witness ==
    /\ RoomPast(AfterDylibs)
    /\ Image = ImgAllDylibs
    /\ Len(dylibs) = 5
    /\ dylibs[4].path = dylibs[5].path

\* the protect calls and the readbacks of segment i, as positions in the log
ProtectCalls(i) == {k \in Events("protect") : log[k].seg = i}
Readbacks(i) == {k \in Events("readback") : log[k].seg = i}

\* C20: for each segment it seals, segments_protection_apply issues two
\* protect calls on (vm + vmaddr, vmsize) with initprot, the first with
\* set_max = true and the second with set_max = false, and reads the
\* protection back after both.
C20_MaxThenCurrent ==
    driver = "room" =>
        \A i \in DOMAIN Image.segments :
            (Readbacks(i) # {} \/ (pc \in AfterSeal /\ ~IsPageZero(i))) =>
                LET seg == Image.segments[i]
                    first == Min(ProtectCalls(i))
                    second == Max(ProtectCalls(i))
                IN  /\ Cardinality(ProtectCalls(i)) = 2
                    /\ log[first].val = 1 /\ log[second].val = 0
                    /\ \A k \in ProtectCalls(i) :
                           /\ log[k].arg = seg.initprot
                           /\ log[k].addr = seg.vmaddr /\ log[k].size = seg.vmsize
                    /\ \A k \in Readbacks(i) : k > second

\* the file bytes of cell i of a GOT section: the 64-bit value read_ptr reads
SlotValue(sc, i) ==
    LET section == Image.segments[sc[1]].sections[sc[2]]
    IN  SubSeq(Image.bytes, section.offset + PtrSize * i + 1,
               section.offset + PtrSize * i + PtrSize)
\* the symbols the rebinder looked up for cell i of the section
LookedUp(sc, i) ==
    {log[k].arg : k \in {e \in Events("dlsym") :
        log[e].seg = sc[1] /\ log[e].sect = sc[2] /\ log[e].slot = i}}

\* C21: for every 64-bit value p of a GOT slot, read_ptr gives p with bits
\* 63..60 cleared and bits 59..0 unchanged; on a p whose bits 63..60 are zero
\* it gives p; applied to its own result it gives that result; and the
\* symbol the rebinder looks up for the slot is one whose n_value is that
\* result.
C21_ReadPtrStripsTag ==
    img \in DOMAIN Images =>
        \A sc \in GotSections :
            \A i \in 0 .. (Image.segments[sc[1]].sections[sc[2]].size \div PtrSize - 1) :
                LET p == SlotValue(sc, i)
                    r == read_ptr(Image.bytes,
                                  Image.segments[sc[1]].sections[sc[2]].offset + PtrSize * i)
                IN  /\ \A k \in 1 .. 7 : r[k] = p[k]
                    /\ r[8] % 16 = p[8] % 16
                    /\ r[8] \div 16 = 0
                    /\ (p[8] \div 16 = 0 => r = p)
                    /\ read_ptr(r, 0) = r
                    /\ \A k \in LookedUp(sc, i) : Image.symbols[k].n_value = r
\* a slot of the section whose symbol the rebinder has looked up
LookedUpSlots(sc) ==
    {i \in 0 .. (Image.segments[sc[1]].sections[sc[2]].size \div PtrSize - 1) :
        LookedUp(sc, i) # {}}
\* the rebinder has looked up the symbols of a slot with bit 60 set, of a
\* slot with all of bits 63..60 set and of a slot without a tag whose bits
\* 59..56 are not zero
C21_Witness ==
    /\ RoomPast(AfterRebind)
    /\ \E sc \in GotSections :
          /\ \E i \in LookedUpSlots(sc) : SlotValue(sc, i)[8] \div 16 = 1
          /\ \E i \in LookedUpSlots(sc) : SlotValue(sc, i)[8] \div 16 = 15
          /\ \E i \in LookedUpSlots(sc) : SlotValue(sc, i)[8] \in 1 .. 15

\* the sections the claim names: <<segment, section>> of a __DATA_CONST
\* segment, whose name begins with the prefix, of a symbol pointer type
NamedSections(prefix) ==
    {sc \in {<<si, ci>> : si \in DOMAIN Image.segments, ci \in 1 .. 4} :
        /\ sc[2] \in DOMAIN Image.segments[sc[1]].sections
        /\ segment_name_eq(Image.segments[sc[1]].segname, S_DATA_CONST)
        /\ LET section == Image.segments[sc[1]].sections[sc[2]]
           IN  /\ segment_name_eq(section.sectname, prefix)
               /\ section.flags % (SECTION_TYPE + 1)
                      \in {S_NON_LAZY_SYMBOL_POINTERS, S_LAZY_SYMBOL_POINTERS}
               /\ section.size \div PtrSize >= 1}
\* the GOT writes made for a section
WritesOf(sc) ==
    {e \in Events("got_write") : log[e].seg = sc[1] /\ log[e].sect = sc[2]}

\* C22: after the Room's rebinding, every __got section and every __auth_got
\* section of __DATA_CONST has been processed; no slot of an __auth_got
\* section of type 0x6 or 0x7 holds its pre-link value; and no section of
\* another segment or of another name has been written.
C22_AuthGotRebound ==
    RoomPast(AfterRebind) =>
        /\ \A sc \in NamedSections(S_got) \cup NamedSections(S_auth_got) :
               WritesOf(sc) # {}
        /\ \A sc \in NamedSections(S_auth_got) :
               LET section == Image.segments[sc[1]].sections[sc[2]]
               IN  \A i \in 0 .. (section.size \div PtrSize - 1) :
                       Cell(section.addr + PtrSize * i) # SlotValue(sc, i)
        /\ \A e \in Events("got_write") :
               <<log[e].seg, log[e].sect>>
                   \in NamedSections(S_got) \cup NamedSections(S_auth_got)

\* C23: in the Task driver every GOT slot write comes before the protection
\* of the segment that holds the slot: no protect call on that segment is
\* earlier in the run than a write to one of its slots.
C23_GotWritesBeforeProtect ==
    driver = "task" =>
        \A e \in Events("got_write") :
            \A q \in ProtectCalls(log[e].seg) : e < q

\* the dlopen calls that gave a null handle, by the variant of their command
NullHandles(weak) ==
    {e \in Events("dlopen") :
        /\ log[e].val = 0
        /\ (Image.load_commands[log[e].seg].cmd = "LC_LOAD_WEAK_DYLIB") = weak}

\* C24: a null handle for a required dylib command (LC_LOAD_DYLIB,
\* LC_LOAD_UPWARD_DYLIB, LC_REEXPORT_DYLIB, LC_LAZY_LOAD_DYLIB) ends the load
\* with DlopenFailed, and the load ends with DlopenFailed only then: a null
\* handle for an LC_LOAD_WEAK_DYLIB command does not end it.
C24_NullHandleFatalIffRequired ==
    driver = "room" =>
        /\ NullHandles(FALSE) # {} => fail = "DlopenFailed"
        /\ fail = "DlopenFailed" => NullHandles(FALSE) # {}

\* the size of the Room's window: what Room::new asked memory_alloc for
WindowSize == log[Min(Events("alloc"))].size

\* C25: every range the Room copies to or protects, every GOT slot it
\* writes and the entry address it calls lie inside the window
\* [vm, vm + vm_size), vm being address 0.
C25_InsideWindow ==
    driver = "room" =>
        /\ \A e \in Events("copy") \cup Events("protect") \cup Events("got_write") :
               log[e].addr + log[e].size <= WindowSize
        /\ \A e \in Events("entry") : log[e].addr < WindowSize

====
